---- MODULE Spec2Model ----
(***************************************************************************)
(* Model of app.py: the data loader (load_df), the chart selector          *)
(* (auto_chart, multi_graphs, map_chart) and the orchestrator (pipeline).  *)
(* pandas.read_csv, the chat-completion client, plotly's image writer and  *)
(* the PDF/DOCX writers are external collaborators: each call either       *)
(* returns or raises, chosen nondeterministically.                         *)
(***************************************************************************)
EXTENDS Integers, Sequences, FiniteSets, TLC

VARIABLES
    file, text_data, url,   \* pipeline's source arguments
    query, title,           \* pipeline's question and report title
    pc,                     \* position of the run
    df,                     \* the loaded DataFrame
    explanation,            \* the narrative, a sequence of text pieces
    main, figs, mapfig,     \* the figures of the CHART stage
    all_figs, imgs,         \* figures to rasterize, image paths
    pdf, docx,              \* document paths
    result,                 \* the tuple returned to the caller
    reads,                  \* history: sources handed to pd.read_csv
    stages,                 \* history: stages entered
    loadError, aiError, exportError,  \* history: what was raised, "" if nothing
    asked,                  \* history: question handed to ask_ai
    pdfCall, docxCall       \* history: arguments handed to each writer

inputs == <<file, text_data, url, query, title>>

vars == <<inputs, pc, df, explanation, main, figs, mapfig,
          all_figs, imgs, pdf, docx, result, reads, stages,
          loadError, aiError, exportError, asked, pdfCall, docxCall>>

----------------------------------------------------------------------------
(* Bounds of the explored inputs.                                          *)

\* Largest number of columns of a dataset given to the chart selector.
MaxCols == 3

\* Largest number of columns of a dataset loaded by a pipeline run.
MaxPipelineCols == 2

\* Longest pasted text / URL string.
MaxTextLen == 1

----------------------------------------------------------------------------
(* Column names.  Python's str.lower() is modelled by its table over the   *)
(* names the inputs are drawn from.                                        *)

Names == {"year", "date", "tahun", "TARIKH",
          "negeri", "State", "daerah", "region", "country", "Negara",
          "sales", "name"}

PipelineNames == {"year", "negeri", "sales"}

Lower(c) ==
    CASE c = "TARIKH" -> "tarikh"
      [] c = "State"  -> "state"
      [] c = "Negara" -> "negara"
      [] OTHER        -> c

\* app.py:49
TimeAliases == {"tahun", "year", "date", "tarikh"}

\* app.py:74
GeoAliases == {"negeri", "state", "daerah", "region", "country", "negara"}

\* app.py:80
WorldAliases == {"country", "negara", "state"}

----------------------------------------------------------------------------
(* Datasets: an ordered, non-empty collection of uniquely named columns,   *)
(* each numeric or not (the only facts about a DataFrame the chart         *)
(* selector reads).                                                        *)

Columns(names) == [name : names, numeric : BOOLEAN]

DatasetsOver(names, n) ==
    { d \in UNION { [1..k -> Columns(names)] : k \in 1..n } :
        \A i, j \in DOMAIN d : i # j => d[i].name # d[j].name }

\* The value of a variable holding no DataFrame.
NoDf == << >>

\* df.columns
columns(d) == [i \in 1..Len(d) |-> d[i].name]

IsNumeric(col) == col.numeric
NotNumeric(col) == ~col.numeric

\* df.select_dtypes(include="number").columns.tolist()
numeric_cols(d) == columns(SelectSeq(d, IsNumeric))

\* df.select_dtypes(exclude="number").columns.tolist()
non_numeric_cols(d) == columns(SelectSeq(d, NotNumeric))

IsTimeLike(c) == Lower(c) \in TimeAliases
IsGeo(c) == Lower(c) \in GeoAliases

\* [c for c in df.columns if c.lower() in ["tahun","year","date","tarikh"]]
time_like(d) == SelectSeq(columns(d), IsTimeLike)

\* [c for c in df.columns if c.lower() in ["negeri",...,"negara"]]
geo_cols(d) == SelectSeq(columns(d), IsGeo)

----------------------------------------------------------------------------
(* Figures.  A figure is described by the plotly constructor that built    *)
(* it, its x/locations field, its y/color field and the fixed part of its  *)
(* title.                                                                  *)

Fig(kind, x, y, heading) ==
    [kind |-> kind, x |-> x, y |-> y, title |-> heading]

\* Python's None where a figure is expected.
NoFig == Fig("None", "", "", "")

\* px.scatter(title="... Tiada data numerik ditemui.")
PlaceholderFig == Fig("scatter", "", "", "Tiada data numerik ditemui")

\* auto_chart with the bar chart grouped by the dataset's first column.
auto_chart_bar_on_first_column(d) ==
    IF numeric_cols(d) = << >>
    THEN PlaceholderFig
    ELSE IF time_like(d) # << >>
         THEN Fig("line", time_like(d)[1], numeric_cols(d)[1], "Trend")
         ELSE IF non_numeric_cols(d) # << >>
              THEN Fig("bar", columns(d)[1], numeric_cols(d)[1],
                       "Perbandingan")
              ELSE Fig("scatter", columns(d)[1], numeric_cols(d)[1],
                       "Hubungan")

\* auto_chart with the bar rule tried before the time-axis rule.
auto_chart_bar_rule_first(d) ==
    IF numeric_cols(d) = << >>
    THEN PlaceholderFig
    ELSE IF non_numeric_cols(d) # << >>
         THEN Fig("bar", non_numeric_cols(d)[1], numeric_cols(d)[1],
                  "Perbandingan")
         ELSE IF time_like(d) # << >>
              THEN Fig("line", time_like(d)[1], numeric_cols(d)[1], "Trend")
              ELSE Fig("scatter", columns(d)[1], numeric_cols(d)[1],
                       "Hubungan")

auto_chart(d) ==
    IF numeric_cols(d) = << >>
    THEN PlaceholderFig
    ELSE IF time_like(d) # << >>
         THEN Fig("line", time_like(d)[1], numeric_cols(d)[1], "Trend")
         ELSE IF non_numeric_cols(d) # << >>
              THEN Fig("bar", non_numeric_cols(d)[1], numeric_cols(d)[1],
                       "Perbandingan")
              ELSE Fig("scatter", columns(d)[1], numeric_cols(d)[1],
                       "Hubungan")

\* multi_graphs with the x-field the primary chart uses.
multi_graphs_primary_x(d) ==
    IF numeric_cols(d) = << >>
    THEN << >>
    ELSE LET x == IF time_like(d) # << >> THEN time_like(d)[1]
                  ELSE columns(d)[1]
             y == numeric_cols(d)[1]
         IN << Fig("line", x, y, "Line Chart"),
               Fig("bar", x, y, "Bar Chart"),
               Fig("scatter", x, y, "Scatter Plot") >>

multi_graphs(d) ==
    IF numeric_cols(d) = << >>
    THEN << >>
    ELSE LET x == columns(d)[1]
             y == numeric_cols(d)[1]
         IN << Fig("line", x, y, "Line Chart"),
               Fig("bar", x, y, "Bar Chart"),
               Fig("scatter", x, y, "Scatter Plot") >>

\* map_chart with the world-map test on the name as written.
map_chart_case_sensitive(d) ==
    IF geo_cols(d) = << >> \/ numeric_cols(d) = << >>
    THEN NoFig
    ELSE LET geo == geo_cols(d)[1]
             val == numeric_cols(d)[1]
         IN IF geo \in WorldAliases
            THEN Fig("choropleth", geo, val, "Peta Dunia")
            ELSE Fig("choropleth", geo, val, "Peta Malaysia")

map_chart(d) ==
    IF geo_cols(d) = << >> \/ numeric_cols(d) = << >>
    THEN NoFig
    ELSE LET geo == geo_cols(d)[1]
             val == numeric_cols(d)[1]
         IN IF Lower(geo) \in WorldAliases
            THEN Fig("choropleth", geo, val, "Peta Dunia")
            ELSE Fig("choropleth", geo, val, "Peta Malaysia")

\* [main]+figs+([mapfig] if mapfig else [])
AllFigs(m, fs, mf) == <<m>> \o fs \o (IF mf # NoFig THEN <<mf>> ELSE << >>)

----------------------------------------------------------------------------
(* Source arguments.  A pasted text or URL is a string of characters, of   *)
(* which only whitespace or not matters to load_df; Python's None behaves  *)
(* as the empty string in "text_data and text_data.strip()".  The Gradio   *)
(* file argument is None or a file handle.                                 *)

Chars == {" ", "a"}

Texts == UNION { [1..k -> Chars] : k \in 0..MaxTextLen }

Files == {"None", "handle"}

\* The question and the report title: empty or not.
Phrases == {"", "user text"}

RECURSIVE lstrip(_)
lstrip(s) == IF s # << >> /\ Head(s) = " " THEN lstrip(Tail(s)) ELSE s

RECURSIVE rstrip(_)
rstrip(s) ==
    IF s # << >> /\ s[Len(s)] = " " THEN rstrip(SubSeq(s, 1, Len(s) - 1)) ELSE s

\* str.strip()
strip(s) == rstrip(lstrip(s))

\* load_df with the pasted text tried before the file.
load_df_text_first(f, t, u) ==
    IF t # << >> /\ strip(t) # << >> THEN "text"
    ELSE IF f # "None" THEN "file"
    ELSE IF u # << >> /\ strip(u) # << >> THEN "url"
    ELSE "none"

\* The source load_df hands to pd.read_csv, "none" when it returns None.
load_df(f, t, u) ==
    IF f # "None" THEN "file"
    ELSE IF t # << >> /\ strip(t) # << >> THEN "text"
    ELSE IF u # << >> /\ strip(u) # << >> THEN "url"
    ELSE "none"

----------------------------------------------------------------------------
(* The run of pipeline.                                                    *)

\* Python's None where a path is expected.
NoPath == "None"

PdfPath == "laporan.pdf"
DocxPath == "laporan.docx"

\* chart_{i}.png
ChartPng(i) == <<"chart", i>>

\* What the collaborators raise.
LoadErrors == {"ParserError"}
AiErrors == {"APIConnectionError"}
ExportErrors == {"ValueError"}

PipelineDatasets == DatasetsOver(PipelineNames, MaxPipelineCols)

DefaultQuery == "Terangkan trend utama"
DefaultTitle == "Laporan AIzz Data Analyst"

\* Python's "a or b" on strings.
Or(a, b) == IF a # "" THEN a ELSE b

\* The arguments of export_pdf / export_docx; NoCall before the call.
Call(t, text, images) == [title |-> t, text |-> text, images |-> images]
NoCall == Call("", << >>, << >>)

\* return None,None,None,None,None,<message>,None,None
EarlyReturn(message) ==
    <<NoFig, NoFig, NoFig, NoFig, NoFig, message, NoPath, NoPath>>

Init ==
    /\ file \in Files
    /\ text_data \in Texts
    /\ url \in Texts
    /\ query \in Phrases
    /\ title \in Phrases
    /\ pc = "load"
    /\ df = NoDf
    /\ explanation = << >>
    /\ main = NoFig
    /\ figs = << >>
    /\ mapfig = NoFig
    /\ all_figs = << >>
    /\ imgs = << >>
    /\ pdf = NoPath
    /\ docx = NoPath
    /\ result = << >>
    /\ reads = {}
    /\ stages = {}
    /\ loadError = ""
    /\ aiError = ""
    /\ exportError = ""
    /\ asked = ""
    /\ pdfCall = NoCall
    /\ docxCall = NoCall

\* Load with a read error reported but the run carried on.
LoadCarriesOn ==
    /\ pc = "load"
    /\ stages' = stages \cup {"LOAD"}
    /\ LET src == load_df(file, text_data, url) IN
       \/ /\ src = "none"
          /\ result' = EarlyReturn(<<"Tiada data">>)
          /\ pc' = "done"
          /\ UNCHANGED <<df, reads, loadError>>
       \/ /\ src # "none"
          /\ reads' = reads \cup {src}
          /\ \E e \in LoadErrors :
                /\ loadError' = e
                /\ result' = EarlyReturn(<<"Ralat baca data: ", e>>)
                /\ pc' = "narrate"
          /\ UNCHANGED df
       \/ /\ src # "none"
          /\ reads' = reads \cup {src}
          /\ \E d \in PipelineDatasets : df' = d
          /\ pc' = "narrate"
          /\ UNCHANGED <<result, loadError>>
    /\ UNCHANGED <<inputs, explanation, main, figs, mapfig,
                   all_figs, imgs, pdf, docx, aiError, exportError,
                   asked, pdfCall, docxCall>>

\* Lines 144-148: load_df returns None, pd.read_csv raises, or a DataFrame.
Load ==
    /\ pc = "load"
    /\ stages' = stages \cup {"LOAD"}
    /\ LET src == load_df(file, text_data, url) IN
       \/ /\ src = "none"
          /\ result' = EarlyReturn(<<"Tiada data">>)
          /\ pc' = "done"
          /\ UNCHANGED <<df, reads, loadError>>
       \/ /\ src # "none"
          /\ reads' = reads \cup {src}
          /\ \E e \in LoadErrors :
                /\ loadError' = e
                /\ result' = EarlyReturn(<<"Ralat baca data: ", e>>)
                /\ pc' = "done"
          /\ UNCHANGED df
       \/ /\ src # "none"
          /\ reads' = reads \cup {src}
          /\ \E d \in PipelineDatasets : df' = d
          /\ pc' = "narrate"
          /\ UNCHANGED <<result, loadError>>
    /\ UNCHANGED <<inputs, explanation, main, figs, mapfig,
                   all_figs, imgs, pdf, docx, aiError, exportError,
                   asked, pdfCall, docxCall>>

\* Lines 150-153: ask_ai returns the model's text or raises.
Narrate ==
    /\ pc = "narrate"
    /\ stages' = stages \cup {"NARRATE"}
    /\ asked' = Or(query, DefaultQuery)
    /\ \/ /\ explanation' = <<"ai text">>
          /\ UNCHANGED aiError
       \/ \E e \in AiErrors :
             /\ explanation' = <<"Gagal AI: ", e>>
             /\ aiError' = e
    /\ pc' = "chart"
    /\ UNCHANGED <<inputs, df, main, figs, mapfig, all_figs,
                   imgs, pdf, docx, result, reads, loadError, exportError,
                   pdfCall, docxCall>>

\* Lines 155-158.
Chart ==
    /\ pc = "chart"
    /\ stages' = stages \cup {"CHART"}
    /\ main' = auto_chart(df)
    /\ figs' = multi_graphs(df)
    /\ mapfig' = map_chart(df)
    /\ all_figs' = AllFigs(auto_chart(df), multi_graphs(df), map_chart(df))
    /\ pc' = "save_images"
    /\ UNCHANGED <<inputs, df, explanation, imgs, pdf, docx,
                   result, reads, loadError, aiError, exportError,
                   asked, pdfCall, docxCall>>

\* Lines 164-166: the handler of the export block.
ExportFailed(e) ==
    /\ exportError' = e
    /\ pdf' = NoPath
    /\ docx' = NoPath
    /\ explanation' = explanation \o <<"\nGagal export: ", e>>
    /\ pc' = "return"

\* Line 161: save_images writes one image per figure, or write_image raises.
SaveImages ==
    /\ pc = "save_images"
    /\ stages' = stages \cup {"EXPORT"}
    /\ \/ /\ imgs' = [i \in 1..Len(all_figs) |-> ChartPng(i)]
          /\ pc' = "export_pdf"
          /\ UNCHANGED <<explanation, pdf, docx, exportError>>
       \/ /\ \E e \in ExportErrors : ExportFailed(e)
          /\ UNCHANGED imgs
    /\ UNCHANGED <<inputs, df, main, figs, mapfig, all_figs,
                   result, reads, loadError, aiError, asked, pdfCall, docxCall>>

\* Line 162: export_pdf builds laporan.pdf, or raises.
ExportPdf ==
    /\ pc = "export_pdf"
    /\ pdfCall' = Call(Or(title, DefaultTitle), explanation, imgs)
    /\ \/ /\ pdf' = PdfPath
          /\ pc' = "export_docx"
          /\ UNCHANGED <<explanation, docx, exportError>>
       \/ \E e \in ExportErrors : ExportFailed(e)
    /\ UNCHANGED <<inputs, df, main, figs, mapfig, all_figs,
                   imgs, result, reads, stages, loadError, aiError, asked,
                   docxCall>>

\* Line 163: export_docx builds laporan.docx, or raises.
ExportDocx ==
    /\ pc = "export_docx"
    /\ docxCall' = Call(Or(title, DefaultTitle), explanation, imgs)
    /\ \/ /\ docx' = DocxPath
          /\ pc' = "return"
          /\ UNCHANGED <<explanation, pdf, exportError>>
       \/ \E e \in ExportErrors : ExportFailed(e)
    /\ UNCHANGED <<inputs, df, main, figs, mapfig, all_figs,
                   imgs, result, reads, stages, loadError, aiError, asked,
                   pdfCall>>

\* Line 168: figs[0], figs[1], figs[2] raise IndexError on a shorter list.
Return ==
    /\ pc = "return"
    /\ IF \A i \in 1..3 : i \in DOMAIN figs
       THEN /\ result' = <<main, figs[1], figs[2], figs[3], mapfig,
                           explanation, pdf, docx>>
            /\ pc' = "done"
       ELSE /\ pc' = "raised"
            /\ UNCHANGED result
    /\ UNCHANGED <<inputs, df, explanation, main, figs, mapfig,
                   all_figs, imgs, pdf, docx, reads, stages, loadError,
                   aiError, exportError, asked, pdfCall, docxCall>>

Next == Load \/ Narrate \/ Chart \/ SaveImages \/ ExportPdf \/ ExportDocx
        \/ Return

Spec == Init /\ [][Next]_vars

----------------------------------------------------------------------------
(* The chart selector on its own: every dataset of up to MaxCols columns   *)
(* is given to auto_chart, multi_graphs and map_chart in turn, and the     *)
(* figures are collected as pipeline collects them.                        *)

Datasets == DatasetsOver(Names, MaxCols)

InitCharts ==
    /\ df \in Datasets
    /\ pc = "auto_chart"
    /\ file = "None"
    /\ text_data = << >>
    /\ url = << >>
    /\ query = ""
    /\ title = ""
    /\ explanation = << >>
    /\ main = NoFig
    /\ figs = << >>
    /\ mapfig = NoFig
    /\ all_figs = << >>
    /\ imgs = << >>
    /\ pdf = NoPath
    /\ docx = NoPath
    /\ result = << >>
    /\ reads = {}
    /\ stages = {}
    /\ loadError = ""
    /\ aiError = ""
    /\ exportError = ""
    /\ asked = ""
    /\ pdfCall = NoCall
    /\ docxCall = NoCall

ApplyAutoChart ==
    /\ pc = "auto_chart"
    /\ main' = auto_chart(df)
    /\ pc' = "multi_graphs"
    /\ UNCHANGED <<inputs, df, explanation, figs, mapfig,
                   all_figs, imgs, pdf, docx, result, reads, stages,
                   loadError, aiError, exportError, asked, pdfCall, docxCall>>

ApplyMultiGraphs ==
    /\ pc = "multi_graphs"
    /\ figs' = multi_graphs(df)
    /\ pc' = "map_chart"
    /\ UNCHANGED <<inputs, df, explanation, main, mapfig,
                   all_figs, imgs, pdf, docx, result, reads, stages,
                   loadError, aiError, exportError, asked, pdfCall, docxCall>>

ApplyMapChart ==
    /\ pc = "map_chart"
    /\ mapfig' = map_chart(df)
    /\ pc' = "all_figs"
    /\ UNCHANGED <<inputs, df, explanation, main, figs,
                   all_figs, imgs, pdf, docx, result, reads, stages,
                   loadError, aiError, exportError, asked, pdfCall, docxCall>>

CollectFigs ==
    /\ pc = "all_figs"
    /\ all_figs' = AllFigs(main, figs, mapfig)
    /\ pc' = "charted"
    /\ UNCHANGED <<inputs, df, explanation, main, figs, mapfig,
                   imgs, pdf, docx, result, reads, stages,
                   loadError, aiError, exportError, asked, pdfCall, docxCall>>

NextCharts == ApplyAutoChart \/ ApplyMultiGraphs \/ ApplyMapChart
              \/ CollectFigs

SpecCharts == InitCharts /\ [][NextCharts]_vars

----------------------------------------------------------------------------
(* Vocabulary of the properties.  Column positions are stated by index,    *)
(* alias lists as the specification gives them.                            *)

NumericCol(c) == c.numeric
NonNumericCol(c) == ~c.numeric
TimeCol(c) == Lower(c.name) \in {"year", "date", "tahun", "tarikh"}
GeoCol(c) ==
    Lower(c.name) \in {"negeri", "state", "daerah", "region", "country",
                       "negara"}

Some(d, P(_)) == \E i \in DOMAIN d : P(d[i])

\* Column i is the first column of d, in column order, that satisfies P.
IsFirst(d, i, P(_)) ==
    /\ i \in DOMAIN d
    /\ P(d[i])
    /\ \A j \in 1..(i - 1) : ~P(d[j])

\* f is a chart of the given kind with x-field the first P column and
\* y-field the first numeric column of d.
Plots(f, kind, d, P(_)) ==
    /\ f.kind = kind
    /\ \E i, k \in DOMAIN d :
          /\ IsFirst(d, i, P)
          /\ IsFirst(d, k, NumericCol)
          /\ f.x = d[i].name
          /\ f.y = d[k].name

AnyCol(c) == TRUE

MainComputed == pc \in {"multi_graphs", "map_chart", "all_figs", "charted"}
FigsComputed == pc \in {"map_chart", "all_figs", "charted"}
MapComputed == pc \in {"all_figs", "charted"}

YearSales == << [name |-> "year", numeric |-> TRUE],
                [name |-> "sales", numeric |-> TRUE] >>

\* C2: for the dataset {year, sales} with numeric rows, the primary chart is
\* a line chart of sales against year, the panel is line, bar, scatter of
\* sales against year, and the map is omitted.
C2_YearSalesScenario ==
    (pc = "charted" /\ df = YearSales) =>
        /\ main.kind = "line" /\ main.x = "year" /\ main.y = "sales"
        /\ Len(figs) = 3
        /\ figs[1].kind = "line" /\ figs[2].kind = "bar"
        /\ figs[3].kind = "scatter"
        /\ \A i \in 1..3 : figs[i].x = "year" /\ figs[i].y = "sales"
        /\ mapfig = NoFig

\* C7 as stated: every dataset without a time-alias column and with a
\* non-numeric column gets a bar chart grouped by its first non-numeric
\* column.
C7_BarWithoutTimeAlias ==
    (MainComputed /\ ~Some(df, TimeCol) /\ Some(df, NonNumericCol)) =>
        /\ main.kind = "bar"
        /\ \E i \in DOMAIN df :
              IsFirst(df, i, NonNumericCol) /\ main.x = df[i].name

\* C7 amended: every dataset with a numeric column, without a time-alias
\* column and with a non-numeric column gets a bar chart of the first
\* numeric column grouped by the first non-numeric column.
C7_BarWithNumeric ==
    (MainComputed /\ Some(df, NumericCol) /\ ~Some(df, TimeCol)
        /\ Some(df, NonNumericCol)) =>
        Plots(main, "bar", df, NonNumericCol)

\* A bar chart whose grouping column is not the dataset's first column.
C7_Witness ==
    /\ pc = "charted"
    /\ ~Some(df, TimeCol)
    /\ df[1].numeric
    /\ main.kind = "bar"
    /\ main.x # df[1].name

\* C8: the primary chart follows the ordered rule list, first match wins:
\* no numeric column -> placeholder; a time-alias column -> line chart on the
\* first such column; a non-numeric column -> bar chart on the first such
\* column; otherwise scatter on the first column; y is always the first
\* numeric column.
C8_RuleList ==
    MainComputed =>
        IF ~Some(df, NumericCol)
        THEN /\ main.kind = "scatter" /\ main.x = "" /\ main.y = ""
             /\ main.title = "Tiada data numerik ditemui"
        ELSE IF Some(df, TimeCol)
        THEN Plots(main, "line", df, TimeCol)
        ELSE IF Some(df, NonNumericCol)
        THEN Plots(main, "bar", df, NonNumericCol)
        ELSE Plots(main, "scatter", df, AnyCol)

\* A line chart on a time-alias column that is preceded by a non-numeric
\* column which is no time alias: the time rule won over the bar rule.
C8_Witness ==
    /\ pc = "charted"
    /\ main.kind = "line"
    /\ ~df[1].numeric
    /\ ~TimeCol(df[1])
    /\ main.x # df[1].name

\* C9: the panel is exactly line, bar, scatter on the first column against
\* the first numeric column when a numeric column exists, and empty
\* otherwise, whatever the primary chart is.
C9_Panel ==
    FigsComputed =>
        IF Some(df, NumericCol)
        THEN /\ Len(figs) = 3
             /\ Plots(figs[1], "line", df, AnyCol)
             /\ Plots(figs[2], "bar", df, AnyCol)
             /\ Plots(figs[3], "scatter", df, AnyCol)
        ELSE Len(figs) = 0

\* A panel whose x-field differs from the x-field of the primary chart.
C9_Witness ==
    /\ pc = "charted"
    /\ Len(figs) = 3
    /\ main.kind \in {"line", "bar"}
    /\ figs[1].x # main.x

\* C10: a map is produced exactly when a geography-alias column and a
\* numeric column exist; it is keyed on the first geography column and
\* coloured by the first numeric column, a world map when that column is
\* country, negara or state and a regional map otherwise; an omitted map
\* adds no figure to those rasterized for the report.
C10_MapChart ==
    /\ MapComputed =>
          /\ mapfig # NoFig <=> (Some(df, GeoCol) /\ Some(df, NumericCol))
          /\ mapfig # NoFig =>
                /\ Plots(mapfig, "choropleth", df, GeoCol)
                /\ mapfig.title =
                      IF Lower(mapfig.x) \in {"country", "negara", "state"}
                      THEN "Peta Dunia"
                      ELSE "Peta Malaysia"
    /\ (pc = "charted" /\ mapfig = NoFig) =>
          /\ Len(all_figs) = 1 + Len(figs)
          /\ \A i \in DOMAIN all_figs : all_figs[i].kind # "choropleth"

\* A world map keyed on a column whose name matches only after lowering,
\* in a dataset that also has a regional geography column after it.
C10_Witness ==
    /\ pc = "charted"
    /\ mapfig.title = "Peta Dunia"
    /\ mapfig.x = "State"
    /\ \E i \in DOMAIN df : df[i].name = "negeri"
    /\ Len(all_figs) = 5

----------------------------------------------------------------------------
(* Properties of a pipeline run.                                           *)

Finished == pc \in {"done", "raised"}

IsFigOrNone(f) == f.kind \in {"None", "line", "bar", "scatter", "choropleth"}

\* An 8-tuple: five figures or None, a narrative, two paths or None.
WellFormed(r) ==
    /\ Len(r) = 8
    /\ \A i \in 1..5 : IsFigOrNone(r[i])
    /\ r[5].kind \in {"None", "choropleth"}
    /\ Len(r[6]) > 0
    /\ r[7] \in {NoPath, PdfPath}
    /\ r[8] \in {NoPath, DocxPath}

\* C1: every run ends by returning a well-formed 8-tuple; none ends in a
\* fault escaping to the caller.
C1_AlwaysReturns ==
    /\ pc # "raised"
    /\ pc = "done" => WellFormed(result)

NonBlank(s) == \E i \in DOMAIN s : s[i] # " "

\* The source the priority file > pasted text > URL selects.
Priority ==
    IF file # "None" THEN "file"
    ELSE IF NonBlank(text_data) THEN "text"
    ELSE IF NonBlank(url) THEN "url"
    ELSE "none"

\* C3: the dataset is read from the first non-empty source in the order
\* file, pasted text, URL; no other source is ever read, also when the read
\* fails, and then the run ends with the load error; with all three empty
\* the run ends with the no-data result.
C3_SourcePriority ==
    pc # "load" =>
        /\ reads = IF Priority = "none" THEN {} ELSE {Priority}
        /\ Priority = "none" =>
              /\ pc = "done"
              /\ result[6] = <<"Tiada data">>
        /\ loadError # "" =>
              /\ pc = "done"
              /\ df = NoDf
              /\ result[6] = <<"Ralat baca data: ", loadError>>

\* The pasted text was chosen and failed to parse while a URL was present.
C3_Witness ==
    /\ pc = "done"
    /\ reads = {"text"}
    /\ loadError # ""
    /\ NonBlank(url)

\* C4: a run that obtains no dataset goes from LOAD straight to DONE: no
\* later stage is entered, the narrative is a warning, and the five figures
\* and the two paths are None.
C4_NoDatasetEndsAtLoad ==
    (pc # "load" /\ df = NoDf) =>
        /\ pc = "done"
        /\ stages = {"LOAD"}
        /\ asked = "" /\ pdfCall = NoCall /\ docxCall = NoCall
        /\ imgs = << >>
        /\ Len(result) = 8
        /\ \A i \in 1..5 : result[i] = NoFig
        /\ result[6] \in {<<"Tiada data">>,
                          <<"Ralat baca data: ", loadError>>}
        /\ result[7] = NoPath
        /\ result[8] = NoPath

\* The chosen source raised while being read.
C4_Witness ==
    /\ pc = "done"
    /\ df = NoDf
    /\ loadError # ""
    /\ reads # {}

\* C5: after a failed narrative request the run does not abort: CHART and
\* EXPORT are entered, the writers get the placeholder narrative, and the
\* returned narrative carries the error indicator.
C5_NarrativeFailureRecovered ==
    (aiError # "" /\ Finished) =>
        /\ pc = "done"
        /\ {"CHART", "EXPORT"} \subseteq stages
        /\ pdfCall # NoCall => pdfCall.text = <<"Gagal AI: ", aiError>>
        /\ docxCall # NoCall => docxCall.text = <<"Gagal AI: ", aiError>>
        /\ Len(result) = 8
        /\ SubSeq(result[6], 1, 2) = <<"Gagal AI: ", aiError>>

\* The narrative a run holds when it enters EXPORT.
PreExportNarrative ==
    IF aiError = "" THEN <<"ai text">> ELSE <<"Gagal AI: ", aiError>>

\* C6: after a failure in EXPORT the run returns both paths None, the
\* narrative with the failure appended, and the figures of CHART unchanged;
\* without a failure both paths are set.
C6_ExportFailureIsPartialSuccess ==
    ("EXPORT" \in stages /\ Finished) =>
        /\ pc = "done"
        /\ Len(result) = 8
        /\ result[1] = main /\ result[5] = mapfig
        /\ <<result[2], result[3], result[4]>> = figs
        /\ IF exportError # ""
           THEN /\ result[7] = NoPath /\ result[8] = NoPath
                /\ result[6] = PreExportNarrative
                                 \o <<"\nGagal export: ", exportError>>
           ELSE /\ result[7] = PdfPath /\ result[8] = DocxPath
                /\ result[6] = PreExportNarrative

====
